---- MODULE Spec2Model ----
(***************************************************************************)
(* Model of the cathedral_model board engine: the tile grid with its wall  *)
(* border, the registry of placed pieces, placement, removal and the       *)
(* flood fill used by the region query.                                    *)
(*                                                                         *)
(* Coordinates.  A Position is a record [x, y].  The layout of a piece is  *)
(* a matrix of booleans; occupied_coords_iter yields Position{x: row,      *)
(* y: column} of every occupied cell.  The board indexes its interactive   *)
(* tiles with (position.y + cell.x, position.x + cell.y), i.e. (row,       *)
(* column), so position.x is a column and position.y is a row.  The full   *)
(* grid has one more row and column on each side (the walls).              *)
(***************************************************************************)
EXTENDS Integers, Sequences, FiniteSets

VARIABLES tiles, pieces, call, ret, snapshot, board_size, build, hand, turns

vars == <<tiles, pieces, call, ret, snapshot, board_size, build, hand, turns>>

\* Side of the playable area handed to with_size.
Size == 3
\* Largest number of registry entries the model lets a placement add to.
MaxPlaced == 2
\* Largest number of Empty tiles credited to a team.
MaxCredited == 1
\* The columns of the playable area in which callers place pieces and credit
\* tiles.  Every row is used; placements are also tried in the column right
\* of the playable area and in the row below it.
InputColumns == {0}
\* Side of the playable area of Board::default().
DefaultSize == 10
\* Largest number of rotations counted on a piece since it was constructed.
MaxTurns == 5
\* Width in bits of the modelled usize: coordinates are 0..UsizeMax.
UsizeBits == 4

----------------------------------------------------------------------------
(* lib.rs: Team and Position *)

Team == {"White", "Black", "None"}

\* is_opposing_team taking every team other than the team of the tile for
\* an opponent.
is_opposing_team_any_other(self, team) == team # "None" /\ self # team

is_opposing_team(self, team) ==
  \/ (self = "White" /\ team = "Black")
  \/ (self = "Black" /\ team = "White")

Position(x, y) == [x |-> x, y |-> y]

PositionDefault == Position(0, 0)

PositionAdd(self, rhs) == Position(self.x + rhs.x, self.y + rhs.y)

\* usize arithmetic.  A sum or difference outside 0..UsizeMax panics when the
\* crate is built with overflow checks ("debug") and wraps when it is built
\* without them ("release").
BuildModes == {"debug", "release"}
UsizeMax == 2 ^ UsizeBits - 1
Wrap(v) == v % (UsizeMax + 1)
Overflows(v) == v < 0 \/ v > UsizeMax

----------------------------------------------------------------------------
(* position.rs: Position with public coordinates *)

\* usize::checked_add: no value when the sum does not fit.
\* Position::checked_add gives None when either axis has none.
checked_add(self, rhs) ==
  IF Overflows(self.x + rhs.x) THEN [kind |-> "None", position |-> PositionDefault]
  ELSE IF Overflows(self.y + rhs.y) THEN [kind |-> "None", position |-> PositionDefault]
  ELSE [kind |-> "Some", position |-> Position(self.x + rhs.x, self.y + rhs.y)]

\* usize::overflowing_add_signed: the wrapped sum and whether it overflowed.
overflowing_add_signed(v, d) == <<Wrap(v + d), Overflows(v + d)>>

OrthogonalOffsets == << <<0, 1>>, <<1, 0>>, <<0, -1>>, <<-1, 0>> >>

DiagonalOffsets ==
  << <<0, 1>>, <<1, 1>>, <<1, 0>>, <<1, -1>>,
     <<0, -1>>, <<-1, -1>>, <<-1, 0>>, <<-1, 1>> >>

\* adjacent_positions_iter keeping a coordinate equal to the upper bound.
adjacent_positions_iter_inclusive(self, upper_bound, coords) ==
  LET x(t) == overflowing_add_signed(self.x, t[1])
      y(t) == overflowing_add_signed(self.y, t[2])
      some(t) ==
        IF x(t)[2] THEN FALSE
        ELSE IF x(t)[1] > upper_bound.x THEN FALSE
        ELSE IF y(t)[2] THEN FALSE
        ELSE IF y(t)[1] > upper_bound.y THEN FALSE
        ELSE TRUE
      kept == SelectSeq(coords, some)
  IN [k \in 1..Len(kept) |-> Position(x(kept[k])[1], y(kept[k])[1])]

\* The filter_map over the offsets: an offset yields nothing when an axis
\* overflows or reaches the upper bound, and the moved position otherwise.
adjacent_positions_iter(self, upper_bound, coords) ==
  LET x(t) == overflowing_add_signed(self.x, t[1])
      y(t) == overflowing_add_signed(self.y, t[2])
      some(t) ==
        IF x(t)[2] THEN FALSE
        ELSE IF x(t)[1] >= upper_bound.x THEN FALSE
        ELSE IF y(t)[2] THEN FALSE
        ELSE IF y(t)[1] >= upper_bound.y THEN FALSE
        ELSE TRUE
      kept == SelectSeq(coords, some)
  IN [k \in 1..Len(kept) |-> Position(x(kept[k])[1], y(kept[k])[1])]

\* Despite its name it yields the orthogonal and the diagonal neighbours.
diagonal_adjacent_positions_iter(self, upper_bound) ==
  adjacent_positions_iter(self, upper_bound, DiagonalOffsets)

orthogonal_adjacent_positions_iter(self, upper_bound) ==
  adjacent_positions_iter(self, upper_bound, OrthogonalOffsets)

\* impl Add and impl Sub: plain usize + and -, which panic on overflow in a
\* build with overflow checks and wrap in a build without them.
add(self, rhs) ==
  IF build = "debug" /\ (Overflows(self.x + rhs.x) \/ Overflows(self.y + rhs.y))
  THEN [kind |-> "Panic", position |-> PositionDefault]
  ELSE [kind |-> "Ok",
        position |-> Position(Wrap(self.x + rhs.x), Wrap(self.y + rhs.y))]

sub(self, rhs) ==
  IF build = "debug" /\ (Overflows(self.x - rhs.x) \/ Overflows(self.y - rhs.y))
  THEN [kind |-> "Panic", position |-> PositionDefault]
  ELSE [kind |-> "Ok",
        position |-> Position(Wrap(self.x - rhs.x), Wrap(self.y - rhs.y))]

----------------------------------------------------------------------------
(* board.rs: Tile *)

Empty(team) == [kind |-> "Empty", team |-> team]
Occupied(team) == [kind |-> "Occupied", team |-> team]
Wall == [kind |-> "Wall", team |-> "None"]

----------------------------------------------------------------------------
(* piece.rs: layouts and pieces *)

TavernLayout == << <<TRUE>> >>
StableLayout == << <<TRUE>>, <<TRUE>> >>
InnLayout == << <<TRUE, TRUE>>, <<TRUE, FALSE>> >>
AcademyLayout(team) ==
  IF team = "White"
  THEN << <<FALSE, FALSE, TRUE>>, <<TRUE, TRUE, TRUE>>, <<FALSE, TRUE, FALSE>> >>
  ELSE << <<TRUE, FALSE, FALSE>>, <<TRUE, TRUE, TRUE>>, <<FALSE, TRUE, FALSE>> >>

BridgeLayout == << <<TRUE>>, <<TRUE>>, <<TRUE>> >>
SquareLayout == << <<TRUE, TRUE>>, <<TRUE, TRUE>> >>
ManorLayout == << <<TRUE, TRUE, TRUE>>, <<FALSE, TRUE, FALSE>> >>
AbbeyLayout(team) ==
  IF team = "White"
  THEN << <<FALSE, TRUE, TRUE>>, <<TRUE, TRUE, FALSE>> >>
  ELSE << <<TRUE, TRUE, FALSE>>, <<FALSE, TRUE, TRUE>> >>
InfirmaryLayout ==
  << <<FALSE, TRUE, FALSE>>, <<TRUE, TRUE, TRUE>>, <<FALSE, TRUE, FALSE>> >>
CastleLayout == << <<TRUE, TRUE, TRUE>>, <<TRUE, FALSE, TRUE>> >>
TowerLayout ==
  << <<FALSE, TRUE, TRUE>>, <<TRUE, TRUE, FALSE>>, <<TRUE, FALSE, FALSE>> >>
CathedralLayout ==
  << <<FALSE, TRUE, FALSE>>, <<TRUE, TRUE, TRUE>>,
     <<FALSE, TRUE, FALSE>>, <<FALSE, TRUE, FALSE>> >>

NewPiece(team, layout) ==
  [team |-> team, layout |-> layout, position |-> PositionDefault,
   rotation |-> "UP", state |-> "Released"]

new_tavern(team) == NewPiece(team, TavernLayout)
new_stable(team) == NewPiece(team, StableLayout)
new_inn(team) == NewPiece(team, InnLayout)
new_academy(team) == NewPiece(team, AcademyLayout(team))
new_bridge(team) == NewPiece(team, BridgeLayout)
new_square(team) == NewPiece(team, SquareLayout)
new_manor(team) == NewPiece(team, ManorLayout)
new_abbey(team) == NewPiece(team, AbbeyLayout(team))
new_infirmary(team) == NewPiece(team, InfirmaryLayout)
new_castle(team) == NewPiece(team, CastleLayout)
new_tower(team) == NewPiece(team, TowerLayout)
new_cathedral == NewPiece("None", CathedralLayout)

\* The value standing for "no piece" where an operation hands none back.
NoPiece ==
  [team |-> "None", layout |-> <<>>, position |-> PositionDefault,
   rotation |-> "UP", state |-> "Absent"]

nrows(layout) == Len(layout)
ncols(layout) == IF Len(layout) = 0 THEN 0 ELSE Len(layout[1])

\* Local coordinates of the occupied cells, in row-major order.
occupied_coords_iter(piece) ==
  LET r == nrows(piece.layout)
      c == ncols(piece.layout)
      all == [k \in 1..(r * c) |-> Position((k - 1) \div c, (k - 1) % c)]
      occ(p) == piece.layout[p.x + 1][p.y + 1]
  IN SelectSeq(all, occ)

placed_at(self, position) ==
  [team |-> self.team, layout |-> self.layout, position |-> position,
   rotation |-> "UP", state |-> "Placed"]

released(self) ==
  [team |-> self.team, layout |-> self.layout, position |-> PositionDefault,
   rotation |-> "UP", state |-> "Released"]

rotated_clockwise(self) ==
  CASE self = "UP" -> "RIGHT"
    [] self = "RIGHT" -> "DOWN"
    [] self = "DOWN" -> "LEFT"
    [] self = "LEFT" -> "UP"

rotated_counterclockwise(self) ==
  CASE self = "UP" -> "LEFT"
    [] self = "LEFT" -> "DOWN"
    [] self = "DOWN" -> "RIGHT"
    [] self = "RIGHT" -> "UP"

\* ndarray's swap_axes(0, 1): the transposed view of the layout.
swap_axes(layout) ==
  [a \in 1..ncols(layout) |-> [b \in 1..nrows(layout) |-> layout[b][a]]]

\* ndarray's invert_axis: Axis(0) reverses the order of the rows, Axis(1)
\* the order of the cells of every row.
invert_axis(layout, axis) ==
  LET r == nrows(layout)
      c == ncols(layout)
  IN [a \in 1..r |-> [b \in 1..c |->
        IF axis = 0 THEN layout[r + 1 - a][b] ELSE layout[a][c + 1 - b]]]

\* rotate_clockwise without the swap of the axes.
rotate_clockwise_no_swap(self) ==
  [self EXCEPT !.layout = invert_axis(self.layout, 1),
               !.rotation = rotated_clockwise(self.rotation)]

\* rotate_clockwise moving the last cell of every row to its front instead
\* of reversing the row.
rotate_clockwise_shifted(self) ==
  LET t == swap_axes(self.layout)
      c == ncols(t)
  IN [self EXCEPT
        !.layout = [a \in 1..nrows(t) |-> [b \in 1..c |->
                      t[a][IF b = 1 THEN c ELSE b - 1]]],
        !.rotation = rotated_clockwise(self.rotation)]

rotate_clockwise(self) ==
  [self EXCEPT !.layout = invert_axis(swap_axes(self.layout), 1),
               !.rotation = rotated_clockwise(self.rotation)]

\* rotate_counterclockwise turning the layout and leaving the marker.
rotate_counterclockwise_keeps_marker(self) ==
  [self EXCEPT !.layout = invert_axis(swap_axes(self.layout), 0)]

\* rotate_counterclockwise inverting the axis that rotate_clockwise inverts.
rotate_counterclockwise_same_axis(self) ==
  [self EXCEPT !.layout = invert_axis(swap_axes(self.layout), 1),
               !.rotation = rotated_counterclockwise(self.rotation)]

rotate_counterclockwise(self) ==
  [self EXCEPT !.layout = invert_axis(swap_axes(self.layout), 0),
               !.rotation = rotated_counterclockwise(self.rotation)]

----------------------------------------------------------------------------
(* board.rs: Board *)

GridIndex == (0..(Size + 1)) \X (0..(Size + 1))

with_size(size) ==
  [idx \in (0..(size + 1)) \X (0..(size + 1)) |->
     IF idx[1] = 0 \/ idx[1] = size + 1 \/ idx[2] = 0 \/ idx[2] = size + 1
     THEN Wall
     ELSE Empty("None")]

\* Index (row, column) into the interactive view of the cell c of a piece
\* put at position.
Target(position, c) == <<Wrap(position.y + c.x), Wrap(position.x + c.y)>>
TargetOverflows(position, c) ==
  Overflows(position.y + c.x) \/ Overflows(position.x + c.y)

\* The interactive view is the grid without its border: index (r, c) of the
\* view is index (r + 1, c + 1) of the grid.
InView(idx) == idx[1] >= 0 /\ idx[1] < board_size
                 /\ idx[2] >= 0 /\ idx[2] < board_size
ViewToGrid(idx) == <<idx[1] + 1, idx[2] + 1>>

RECURSIVE can_place_from(_, _, _, _, _)
can_place_from(t, piece, position, coords, k) ==
  IF k > Len(coords) THEN "Ok"
  ELSE LET idx == Target(position, coords[k])
       IN IF build = "debug" /\ TargetOverflows(position, coords[k])
          THEN "Panic"
          ELSE IF ~InView(idx) THEN "PieceOutOfBounds"
          ELSE LET tile == t[ViewToGrid(idx)]
               IN IF tile.kind = "Wall" THEN "PieceOutOfBounds"
                  ELSE IF tile.kind = "Empty"
                          /\ is_opposing_team(piece.team, tile.team)
                       THEN "PieceOnEnemyTile"
                  ELSE IF tile.kind = "Occupied" THEN "PieceOnOccupiedTile"
                  ELSE can_place_from(t, piece, position, coords, k + 1)

\* can_place_piece letting a piece onto a tile Occupied by its own team.
can_place_piece_own_tiles(t, piece, position) ==
  LET coords == occupied_coords_iter(piece)
      own(k) == LET idx == Target(position, coords[k])
                IN InView(idx) /\ t[ViewToGrid(idx)] = Occupied(piece.team)
      others == SelectSeq(coords, LAMBDA c :
                  LET idx == Target(position, c)
                  IN ~(InView(idx) /\ t[ViewToGrid(idx)] = Occupied(piece.team)))
  IN can_place_from(t, piece, position, others, 1)

\* can_place_piece with the bounds of every cell checked before the tile of
\* any cell is looked at.
can_place_piece_bounds_first(t, piece, position) ==
  LET coords == occupied_coords_iter(piece)
  IN IF \E k \in 1..Len(coords) : ~InView(Target(position, coords[k]))
     THEN "PieceOutOfBounds"
     ELSE can_place_from(t, piece, position, coords, 1)

can_place_piece(t, piece, position) ==
  can_place_from(t, piece, position, occupied_coords_iter(piece), 1)

\* The cells (grid indexes) of a placed piece.
BoardCells(piece) ==
  LET coords == occupied_coords_iter(piece)
  IN {ViewToGrid(Target(piece.position, coords[k])) : k \in 1..Len(coords)}

Result(kind, err, piece) ==
  [kind |-> kind, err |-> err, piece |-> piece, set |-> {}, groups |-> << >>,
   position |-> PositionDefault, yielded |-> << >>]

\* The operation called last; for a flood fill its seed and team, for a
\* removal whether it undoes the placement recorded in the snapshot, for an
\* operation of a Position the position and its other argument.
Call(op) ==
  [op |-> op, seed |-> PositionDefault, team |-> "None", roundtrip |-> FALSE,
   self |-> PositionDefault, rhs |-> PositionDefault]

\* History of the last successful placement: its key, the placed piece and
\* the grid before it.  It is valid while nothing else has changed the board,
\* and is kept (no longer valid) by the removal that undoes that placement.
NoSnapshot == [valid |-> FALSE, key |-> PositionDefault, piece |-> NoPiece,
               tiles |-> with_size(Size)]

\* mark_occupied indexing the whole grid, walls included, instead of the
\* interactive view.
mark_occupied_on_grid(t, placed) ==
  LET coords == occupied_coords_iter(placed)
      cells == {Target(placed.position, coords[k]) : k \in 1..Len(coords)}
  IN [idx \in DOMAIN t |->
        IF idx \in cells THEN Occupied(placed.team) ELSE t[idx]]

\* mark_occupied filling the whole rectangle of the layout, its unoccupied
\* cells included.
mark_occupied_rectangle(t, placed) ==
  LET cells == {ViewToGrid(<<placed.position.y + r, placed.position.x + c>>) :
                  r \in 0..(nrows(placed.layout) - 1),
                  c \in 0..(ncols(placed.layout) - 1)}
  IN [idx \in DOMAIN t |->
        IF idx \in cells THEN Occupied(placed.team) ELSE t[idx]]

\* The loop of try_place_piece_at over the cells of the placed piece.
mark_occupied(t, placed) ==
  LET cells == BoardCells(placed)
  IN [idx \in DOMAIN t |->
        IF idx \in cells THEN Occupied(placed.team) ELSE t[idx]]

\* HashMap::insert: an entry already under the key is replaced.
insert(map, key, value) ==
  [k \in DOMAIN map \cup {key} |-> IF k = key THEN value ELSE map[k]]

\* HashMap::remove.
remove(map, key) == [k \in DOMAIN map \ {key} |-> map[k]]

\* try_place_piece_at with the check and the marking fused into one loop:
\* the cells before the failing one are already marked when it fails.
try_place_piece_at_fused(piece, position) ==
  LET res == can_place_piece(tiles, piece, position)
      placed == placed_at(piece, position)
      coords == occupied_coords_iter(placed)
      key == PositionAdd(position, coords[1])
      fails(k) == can_place_from(tiles, piece, position, <<coords[k]>>, 1) # "Ok"
      before == {k \in 1..Len(coords) : \A j \in 1..k : ~fails(j)}
      marked == {ViewToGrid(Target(position, coords[k])) : k \in before}
  IN /\ call' = Call("place")
     /\ tiles' = [idx \in DOMAIN tiles |->
                    IF idx \in marked THEN Occupied(piece.team) ELSE tiles[idx]]
     /\ IF res # "Ok"
        THEN /\ ret' = IF res = "Panic" THEN Result("Panic", "None", NoPiece)
                       ELSE Result("Err", res, NoPiece)
             /\ UNCHANGED <<pieces, snapshot>>
        ELSE /\ Cardinality(DOMAIN pieces) < MaxPlaced
             /\ pieces' = insert(pieces, key, placed)
             /\ ret' = Result("Ok", "None", NoPiece)
             /\ snapshot' = [valid |-> TRUE, key |-> key, piece |-> placed,
                             tiles |-> tiles]

try_place_piece_at(piece, position) ==
  LET res == can_place_piece(tiles, piece, position)
  IN /\ call' = Call("place")
     /\ IF res # "Ok"
        THEN /\ ret' = IF res = "Panic" THEN Result("Panic", "None", NoPiece)
                       ELSE Result("Err", res, NoPiece)
             /\ UNCHANGED <<tiles, pieces, snapshot>>
        ELSE LET placed == placed_at(piece, position)
                 first_occupied_position == occupied_coords_iter(placed)[1]
                 key == PositionAdd(position, first_occupied_position)
             IN /\ Cardinality(DOMAIN pieces) < MaxPlaced
                /\ tiles' = mark_occupied(tiles, placed)
                /\ pieces' = insert(pieces, key, placed)
                /\ ret' = Result("Ok", "None", NoPiece)
                /\ snapshot' = [valid |-> TRUE, key |-> key, piece |-> placed,
                                tiles |-> tiles]

\* clear_tiles leaving the tile credited to the team of the piece.
clear_tiles_to_team(t, piece) ==
  [panicked |-> FALSE,
   tiles |-> [idx \in DOMAIN t |->
                IF idx \in BoardCells(piece) THEN Empty(piece.team) ELSE t[idx]]]

\* The loop of try_remove_piece over the cells of the piece passed in.  The
\* view is indexed with [], which panics on an index outside it; the cells
\* before that one have been cleared by then.
clear_tiles(t, piece) ==
  LET coords == occupied_coords_iter(piece)
      bad == {k \in 1..Len(coords) : ~InView(Target(piece.position, coords[k]))}
      stop == IF bad = {} THEN Len(coords) + 1
              ELSE CHOOSE k \in bad : \A j \in bad : k <= j
      cells == {ViewToGrid(Target(piece.position, coords[k])) : k \in 1..(stop - 1)}
  IN [panicked |-> bad # {},
      tiles |-> [idx \in DOMAIN t |->
                   IF idx \in cells THEN Empty("None") ELSE t[idx]]]

\* try_remove_piece clearing the tiles of the piece before it looks the key
\* up in the registry.
try_remove_piece_clear_first(piece, found_at) ==
  LET cleared == clear_tiles(tiles, piece)
  IN /\ call' = Call("remove")
     /\ tiles' = cleared.tiles
     /\ snapshot' = NoSnapshot
     /\ IF cleared.panicked
        THEN ret' = Result("Panic", "None", NoPiece) /\ UNCHANGED pieces
        ELSE IF found_at \notin DOMAIN pieces
        THEN ret' = Result("Err", "PieceNotOnBoard", NoPiece) /\ UNCHANGED pieces
        ELSE /\ ret' = Result("Ok", "None", released(piece))
             /\ pieces' = remove(pieces, found_at)

try_remove_piece(piece, found_at) ==
  IF found_at \notin DOMAIN pieces
  THEN /\ call' = Call("remove")
       /\ ret' = Result("Err", "PieceNotOnBoard", NoPiece)
       /\ UNCHANGED <<tiles, pieces, snapshot>>
  ELSE LET cleared == clear_tiles(tiles, piece)
       IN /\ call' = [Call("remove") EXCEPT
                        !.roundtrip = snapshot.valid /\ snapshot.key = found_at
                                      /\ snapshot.piece = piece]
          /\ pieces' = remove(pieces, found_at)
          /\ tiles' = cleared.tiles
          /\ ret' = IF cleared.panicked
                    THEN Result("Panic", "None", NoPiece)
                    ELSE Result("Ok", "None", released(piece))
          /\ snapshot' = IF call'.roundtrip
                          THEN [snapshot EXCEPT !.valid = FALSE]
                          ELSE NoSnapshot

\* A caller crediting an Empty tile to a team through the mutable view.
credit_tile(idx, team) ==
  /\ InView(idx)
  /\ tiles[ViewToGrid(idx)].kind = "Empty"
  /\ tiles[ViewToGrid(idx)].team # team
  /\ Cardinality({i \in DOMAIN tiles :
                    tiles[i].kind = "Empty" /\ tiles[i].team # "None"})
       < MaxCredited
  /\ tiles' = [tiles EXCEPT ![ViewToGrid(idx)] = Empty(team)]
  /\ call' = Call("credit")
  /\ ret' = Result("Ok", "None", NoPiece)
  /\ snapshot' = NoSnapshot
  /\ UNCHANGED pieces

----------------------------------------------------------------------------
(* board.rs: the flood fill of the region query.  Positions here index the *)
(* full grid: tiles.get((p.x, p.y)).                                       *)

adjacent_positions(position) ==
  LET x == position.x
      y == position.y
  IN << Position(x, y + 1), Position(x + 1, y + 1), Position(x + 1, y),
        Position(x + 1, y - 1), Position(x, y - 1), Position(x - 1, y - 1),
        Position(x - 1, y), Position(x - 1, y + 1) >>

is_traversible(t, p, team) ==
  LET tile == t[<<p.x, p.y>>]
  IN IF tile.kind = "Occupied" /\ tile.team # team THEN TRUE
     ELSE IF tile.kind = "Empty" THEN TRUE
     ELSE FALSE

SeqRange(seq) == {seq[k] : k \in 1..Len(seq)}

RECURSIVE flood_fill_positions_into_set(_, _, _, _)
RECURSIVE flood_fill_each(_, _, _, _, _)

flood_fill_positions_into_set(t, position, team, set) ==
  IF position \in set THEN set
  ELSE LET adjacent == adjacent_positions(position)
           extended == (set \cup {position}) \cup SeqRange(adjacent)
           trav(p) == is_traversible(t, p, team)
       IN flood_fill_each(t, SelectSeq(adjacent, trav), 1, team, extended)

\* The for loop of flood_fill_positions_into_set over the traversible
\* neighbours.
flood_fill_each(t, seq, k, team, set) ==
  IF k > Len(seq) THEN set
  ELSE flood_fill_each(t, seq, k + 1, team,
                       flood_fill_positions_into_set(t, seq[k], team, set))

\* One call of the flood fill as tile_groups makes it: a traversible seed,
\* the team of a placed piece and an empty set.
flood_fill(seed, team) ==
  /\ is_traversible(tiles, seed, team)
  /\ call' = [Call("flood") EXCEPT !.seed = seed, !.team = team]
  /\ ret' = [Result("Ok", "None", NoPiece) EXCEPT
               !.set = flood_fill_positions_into_set(tiles, seed, team, {})]
  /\ UNCHANGED <<tiles, pieces, snapshot>>

\* The loop of tile_groups over the seeds.  A HashSet is iterated in no
\* particular order, so the result is the set of vectors of groups that some
\* order of the remaining seeds produces.
RECURSIVE tile_groups_from(_, _, _, _)
tile_groups_from(t, team, remaining, groups) ==
  IF remaining = {} THEN {groups}
  ELSE UNION {
         IF \E g \in 1..Len(groups) : p \in groups[g]
         THEN tile_groups_from(t, team, remaining \ {p}, groups)
         ELSE tile_groups_from(t, team, remaining \ {p},
                Append(groups, flood_fill_positions_into_set(t, p, team, {})))
         : p \in remaining}

\* The region query.  The neighbours are taken of the cells that
\* occupied_coords_iter yields, which are coordinates inside the layout: the
\* position of the piece is not added.  x - 1 and y - 1 are usize
\* subtractions, and is_traversible unwraps tiles.get, so it panics on a
\* position outside the grid.
tile_groups(piece) ==
  LET coords == occupied_coords_iter(piece)
      raw == UNION {SeqRange(adjacent_positions(coords[k])) : k \in 1..Len(coords)}
      overflow == \E p \in raw : Overflows(p.x) \/ Overflows(p.y)
      wrapped == {Position(Wrap(p.x), Wrap(p.y)) : p \in raw}
      panics == \/ (build = "debug" /\ overflow)
                \/ \E p \in wrapped : <<p.x, p.y>> \notin DOMAIN tiles
      initial_tiles_positions ==
        {p \in wrapped : is_traversible(tiles, p, piece.team)}
  IN /\ call' = Call("tile_groups")
     /\ IF panics
        THEN ret' = Result("Panic", "None", NoPiece)
        ELSE \E groups \in tile_groups_from(tiles, piece.team,
                                            initial_tiles_positions, << >>) :
               ret' = [Result("Ok", "None", NoPiece) EXCEPT !.groups = groups]
     /\ UNCHANGED <<tiles, pieces, snapshot>>

----------------------------------------------------------------------------
(* The board as a state machine *)

\* History of the piece in the caller's hand: the piece as constructed and
\* the numbers of rotate_clockwise and rotate_counterclockwise calls on it
\* since.  It is valid while nothing but rotations has been called on it.
NoTurns == [valid |-> FALSE, fresh |-> NoPiece, cw |-> 0, ccw |-> 0]

\* Board::with_size(n); the caller holds no piece yet.
InitBoard(n) ==
  /\ tiles = with_size(n)
  /\ pieces = << >>
  /\ call = Call("new")
  /\ ret = Result("Ok", "None", NoPiece)
  /\ snapshot = NoSnapshot
  /\ board_size = n
  /\ hand = NoPiece
  /\ turns = NoTurns

\* The callers of Spec, SpecAny and SpecFlood pass coordinates that no
\* operation takes out of 0..UsizeMax, so one build stands for both there.
Init == InitBoard(Size) /\ build = "debug"

\* Either build, for the callers whose operations reach the ends of usize.
InitAnyBuild == InitBoard(Size) /\ build \in BuildModes

\* Board::default(), in either build.
InitDefault == InitBoard(DefaultSize) /\ build \in BuildModes

PieceInputs ==
  {new_tavern("White"), new_tavern("Black"), new_academy("White")}

\* Positions handed to the board: every row of the first columns of the
\* playable area, the row below it and the column right of it.
PositionInputs ==
  {Position(x, y) : x \in InputColumns \cup {Size}, y \in 0..Size}

\* Pieces that callers ask can_place_piece about: the ones they place, a
\* black stable, and a tavern and the cathedral of no team.
ProbeInputs ==
  PieceInputs \cup {new_stable("Black"), new_tavern("None"), new_cathedral}

\* Placed piece values a caller can hold: the registered ones and a tavern
\* made with placed_at.
PlacedInputs ==
  {pieces[k] : k \in DOMAIN pieces}
    \cup {placed_at(new_tavern("Black"), p) : p \in PositionInputs}

\* Indexes (row, column) of the view at which callers credit tiles.
CreditInputs == (0..(Size - 1)) \X InputColumns

SeedInputs == {Position(x, y) : x \in 1..Size, y \in 1..Size}

Running == ret.kind # "Panic"

Place ==
  /\ Running
  /\ \E piece \in PieceInputs, position \in PositionInputs :
       try_place_piece_at(piece, position)
  /\ UNCHANGED <<board_size, build, hand, turns>>

RemoveRegistered ==
  /\ Running
  /\ \E k \in DOMAIN pieces : try_remove_piece(pieces[k], k)
  /\ UNCHANGED <<board_size, build, hand, turns>>

RemoveAny ==
  /\ Running
  /\ \E piece \in PlacedInputs, found_at \in PositionInputs :
       try_remove_piece(piece, found_at)
  /\ UNCHANGED <<board_size, build, hand, turns>>

\* A removal under a key that the registry has no entry for.
RemoveUnknown ==
  /\ Running
  /\ \E piece \in PlacedInputs, found_at \in PositionInputs \ DOMAIN pieces :
       try_remove_piece(piece, found_at)
  /\ UNCHANGED <<board_size, build, hand, turns>>

Credit ==
  /\ Running
  /\ \E idx \in CreditInputs, team \in {"White", "Black"} : credit_tile(idx, team)
  /\ UNCHANGED <<board_size, build, hand, turns>>

FloodFill ==
  /\ Running
  /\ \E seed \in SeedInputs, k \in DOMAIN pieces :
       flood_fill(seed, pieces[k].team)
  /\ UNCHANGED <<board_size, build, hand, turns>>

TileGroups ==
  /\ Running
  /\ \E k \in DOMAIN pieces : tile_groups(pieces[k])
  /\ UNCHANGED <<board_size, build, hand, turns>>

\* Positions on and just outside the default board.
DefaultPositionInputs ==
  {Position(x, y) : x \in 0..DefaultSize, y \in 0..DefaultSize}

\* A white inn put on the empty board.
PlaceInn ==
  /\ Running
  /\ pieces = << >>
  /\ \E position \in DefaultPositionInputs :
       try_place_piece_at(new_inn("White"), position)
  /\ UNCHANGED <<board_size, build, hand, turns>>

\* Pieces a caller makes with the constructors: every kind for both teams
\* and the cathedral.
HandInputs ==
  UNION {{new_tavern(t), new_stable(t), new_inn(t), new_bridge(t),
          new_square(t), new_manor(t), new_abbey(t), new_academy(t),
          new_infirmary(t), new_castle(t), new_tower(t)} :
           t \in {"White", "Black"}}
    \cup {new_cathedral}

\* A step of a caller on the piece it holds; the board is not involved.
HandStep(op, piece) ==
  /\ hand' = piece
  /\ call' = Call(op)
  /\ ret' = Result("Ok", "None", NoPiece)
  /\ UNCHANGED <<tiles, pieces, snapshot, board_size, build>>

Construct ==
  /\ Running
  /\ \E piece \in HandInputs :
       /\ HandStep("new", piece)
       /\ turns' = [valid |-> TRUE, fresh |-> piece, cw |-> 0, ccw |-> 0]

RotateClockwise ==
  /\ hand.state = "Released"
  /\ turns.valid => turns.cw + turns.ccw < MaxTurns
  /\ HandStep("rotate_clockwise", rotate_clockwise(hand))
  /\ turns' = IF turns.valid THEN [turns EXCEPT !.cw = @ + 1] ELSE turns

RotateCounterclockwise ==
  /\ hand.state = "Released"
  /\ turns.valid => turns.cw + turns.ccw < MaxTurns
  /\ HandStep("rotate_counterclockwise", rotate_counterclockwise(hand))
  /\ turns' = IF turns.valid THEN [turns EXCEPT !.ccw = @ + 1] ELSE turns

PlacedAt ==
  /\ hand.state = "Released"
  /\ \E position \in PositionInputs :
       HandStep("placed_at", placed_at(hand, position))
  /\ turns' = NoTurns

Released ==
  /\ hand.state = "Placed"
  /\ HandStep("released", released(hand))
  /\ turns' = NoTurns

\* Positions with a coordinate at the end of usize.
FarPositionInputs ==
  {Position(x, y) : x, y \in {0, UsizeMax - 1, UsizeMax}} \ {Position(0, 0)}

PlaceFar ==
  /\ Running
  /\ \E piece \in PieceInputs, position \in FarPositionInputs :
       try_place_piece_at(piece, position)
  /\ UNCHANGED <<board_size, build, hand, turns>>

\* Coordinates handed to the operations of a Position: both ends of usize
\* and the ones of the crate's tests.
CoordInputs == {0, 1, 9, UsizeMax}

\* Upper bounds of the neighbour iterators; 10 is the one of the tests.
UpperBoundInputs == {Position(x, y) : x, y \in {0, 1, 10, UsizeMax}}

PointInputs == {Position(x, y) : x, y \in CoordInputs}

\* A step of a caller on positions; the board and the piece in hand are
\* not involved.
PositionStep(op, self, rhs, res) ==
  /\ call' = [Call(op) EXCEPT !.self = self, !.rhs = rhs]
  /\ ret' = res
  /\ UNCHANGED <<tiles, pieces, snapshot, board_size, build, hand, turns>>

OrthogonalAdjacent ==
  /\ Running
  /\ \E self \in PointInputs, upper_bound \in UpperBoundInputs :
       PositionStep("orthogonal_adjacent_positions_iter", self, upper_bound,
         [Result("Ok", "None", NoPiece) EXCEPT
            !.yielded = orthogonal_adjacent_positions_iter(self, upper_bound)])

DiagonalAdjacent ==
  /\ Running
  /\ \E self \in PointInputs, upper_bound \in UpperBoundInputs :
       PositionStep("diagonal_adjacent_positions_iter", self, upper_bound,
         [Result("Ok", "None", NoPiece) EXCEPT
            !.yielded = diagonal_adjacent_positions_iter(self, upper_bound)])

CheckedAdd ==
  /\ Running
  /\ \E self \in PointInputs, rhs \in PointInputs :
       LET res == checked_add(self, rhs)
       IN PositionStep("checked_add", self, rhs,
            [Result(res.kind, "None", NoPiece) EXCEPT !.position = res.position])

Add ==
  /\ Running
  /\ \E self \in PointInputs, rhs \in PointInputs :
       LET res == add(self, rhs)
       IN PositionStep("add", self, rhs,
            [Result(res.kind, "None", NoPiece) EXCEPT !.position = res.position])

Sub ==
  /\ Running
  /\ \E self \in PointInputs, rhs \in PointInputs :
       LET res == sub(self, rhs)
       IN PositionStep("sub", self, rhs,
            [Result(res.kind, "None", NoPiece) EXCEPT !.position = res.position])

\* Callers that remove a piece with its own registry key.
Next == Place \/ RemoveRegistered \/ Credit

Spec == Init /\ [][Next]_vars

\* Callers that may pass any placed piece and any key to a removal.
NextAny == Place \/ RemoveAny

SpecAny == Init /\ [][NextAny]_vars

\* Callers that place pieces and run the flood fill of the region query.
NextFlood == Place \/ Credit \/ FloodFill

SpecFlood == Init /\ [][NextFlood]_vars

\* Callers that remove pieces with their own registry keys, and try removals
\* under keys that are not in the registry.
NextKeys == Place \/ RemoveRegistered \/ RemoveUnknown

SpecKeys == Init /\ [][NextKeys]_vars

\* Callers that place pieces on a board with credited tiles and never take
\* one off.
NextTerritory == Place \/ Credit

SpecTerritory == Init /\ [][NextTerritory]_vars

\* Callers that place pieces and run the region query on them.
NextRegions == Place \/ Credit \/ TileGroups

SpecRegions == InitAnyBuild /\ [][NextRegions]_vars

\* Callers that put one white inn on the default board and run the region
\* query on it.
NextDefault == PlaceInn \/ TileGroups

SpecDefault == InitDefault /\ [][NextDefault]_vars

\* Callers that make a piece, rotate it, put it down and pick it up.
NextPieces ==
  Construct \/ RotateClockwise \/ RotateCounterclockwise \/ PlacedAt \/ Released

SpecPieces == Init /\ [][NextPieces]_vars

\* Callers that also place pieces at the far end of the coordinate type, in
\* either build.
NextFar == Place \/ PlaceFar

SpecFar == InitAnyBuild /\ [][NextFar]_vars

\* Callers that ask for the neighbours of positions.
NextNeighbours == OrthogonalAdjacent \/ DiagonalAdjacent

SpecNeighbours == InitAnyBuild /\ [][NextNeighbours]_vars

\* Callers that add and subtract positions, in either build.
NextArithmetic == CheckedAdd \/ Add \/ Sub

SpecArithmetic == InitAnyBuild /\ [][NextArithmetic]_vars

----------------------------------------------------------------------------
(* Properties *)

OccupiedTiles == {idx \in DOMAIN tiles : tiles[idx].kind = "Occupied"}

RegisteredCells == UNION {BoardCells(pieces[k]) : k \in DOMAIN pieces}

\* C1: the Occupied tiles are exactly the board cells of the registered
\* pieces, and every Occupied tile is a cell of exactly one registered piece.
C1_OccupiedTilesAreRegisteredCells ==
  /\ OccupiedTiles = RegisteredCells
  /\ \A idx \in OccupiedTiles :
       Cardinality({k \in DOMAIN pieces : idx \in BoardCells(pieces[k])}) = 1

\* C2: every registry key is the board position (x = column, y = row) of the
\* first occupied cell of its piece, and the tile there is Occupied by the
\* team of the piece.
C2_KeyIsFirstOccupiedCell ==
  \A k \in DOMAIN pieces :
    LET piece == pieces[k]
        first == Target(piece.position, occupied_coords_iter(piece)[1])
    IN /\ k = Position(first[2], first[1])
       /\ InView(<<k.y, k.x>>)
       /\ tiles[ViewToGrid(<<k.y, k.x>>)] = Occupied(piece.team)

\* C3: a placement keeps every entry the registry had before it, under the
\* same key and with the same piece.
C3_PlacementKeepsEntries ==
  [][call'.op = "place" =>
       \A k \in DOMAIN pieces : k \in DOMAIN pieces' /\ pieces'[k] = pieces[k]]_vars

\* The removal that undoes the last placement has returned.
RoundTripDone == call.op = "remove" /\ call.roundtrip /\ ret.kind = "Ok"

\* C4 (as claimed): placing a piece and removing it with its key leaves every
\* tile as it was before the placement.
C4_RoundTripRestoresGrid == RoundTripDone => tiles = snapshot.tiles

\* C4 (amended): placing a piece and removing it with its key leaves every
\* tile outside the cells of the piece as it was before the placement and
\* every cell of the piece Empty(None); the grid is as before exactly when
\* the cells were Empty(None) before the placement.
C4_RoundTripClearsCells ==
  RoundTripDone =>
    LET cells == BoardCells(snapshot.piece)
    IN /\ tiles = [idx \in DOMAIN tiles |->
                     IF idx \in cells THEN Empty("None") ELSE snapshot.tiles[idx]]
       /\ (tiles = snapshot.tiles)
            <=> (\A idx \in cells : snapshot.tiles[idx] = Empty("None"))

\* A piece was placed on a tile credited to its team and removed again.
C4_Witness ==
  /\ RoundTripDone
  /\ \E idx \in BoardCells(snapshot.piece) :
       snapshot.tiles[idx] = Empty(snapshot.piece.team)
       /\ snapshot.piece.team # "None"

\* C5: a successful removal clears exactly the cells of the piece that was
\* registered under found_at and deletes that entry, whatever placed piece
\* is passed in.
C5_RemovalClearsRegisteredPiece ==
  [][\A piece \in PlacedInputs, found_at \in PositionInputs :
       (try_remove_piece(piece, found_at) /\ ret'.kind = "Ok")
         => /\ tiles' = [idx \in DOMAIN tiles |->
                           IF idx \in BoardCells(pieces[found_at])
                           THEN Empty("None") ELSE tiles[idx]]
            /\ pieces' = remove(pieces, found_at)]_vars

\* The occupied cells of a layout as a set of (row, column) pairs.
LayoutCells(layout) ==
  {rc \in (0..(nrows(layout) - 1)) \X (0..(ncols(layout) - 1)) :
     layout[rc[1] + 1][rc[2] + 1]}

\* What is wrong with putting the cell rc of the piece, itself at position:
\* outside the playable area, on an Occupied tile, on a tile credited to the
\* opposing team, or nothing.
CellVerdict(t, piece, position, rc) ==
  LET row == position.y + rc[1]
      col == position.x + rc[2]
  IN IF ~(row \in 0..(Size - 1) /\ col \in 0..(Size - 1)) THEN "PieceOutOfBounds"
     ELSE IF t[<<row + 1, col + 1>>].kind = "Occupied" THEN "PieceOnOccupiedTile"
     ELSE IF t[<<row + 1, col + 1>>].kind = "Empty"
             /\ is_opposing_team(piece.team, t[<<row + 1, col + 1>>].team)
          THEN "PieceOnEnemyTile"
     ELSE "Ok"

ExpectedCanPlace(t, piece, position) ==
  LET failing == {rc \in LayoutCells(piece.layout) :
                    CellVerdict(t, piece, position, rc) # "Ok"}
      rank(rc) == rc[1] * ncols(piece.layout) + rc[2]
  IN IF failing = {} THEN "Ok"
     ELSE CellVerdict(t, piece, position,
                      CHOOSE rc \in failing : \A o \in failing : rank(rc) <= rank(o))

\* C6: can_place_piece is Ok iff every cell of the piece is inside the
\* playable area on a tile that is neither Occupied nor credited to the
\* opposing team; otherwise it is the error of the first failing cell in
\* row-major order, out of bounds before occupied before enemy.
C6_CanPlaceIsFirstFailingCell ==
  \A piece \in PieceInputs, position \in PositionInputs :
    can_place_piece(tiles, piece, position) = ExpectedCanPlace(tiles, piece, position)

\* A placement has just been refused on an enemy tile, and the board has a
\* piece that fails on an Occupied tile with a later cell out of bounds.
C6_Witness ==
  /\ call.op = "place"
  /\ ret.err = "PieceOnEnemyTile"
  /\ \E piece \in PieceInputs, position \in PositionInputs :
       /\ can_place_piece(tiles, piece, position) = "PieceOnOccupiedTile"
       /\ \E rc \in LayoutCells(piece.layout) :
            CellVerdict(tiles, piece, position, rc) = "PieceOutOfBounds"

\* C7: a failed placement hands the Released piece back, a successful one
\* hands the Placed piece to the caller.
C7_PieceHandedBack ==
  [][\A piece \in PieceInputs, position \in PositionInputs :
       try_place_piece_at(piece, position)
         => ret'.piece = IF ret'.kind = "Err" THEN piece
                         ELSE placed_at(piece, position)]_vars

\* C8: a placement that returns an error leaves the grid and the registry
\* as they were.
C8_FailedPlacementChangesNothing ==
  [][(call'.op = "place" /\ ret'.kind = "Err")
       => (tiles' = tiles /\ pieces' = pieces)]_vars

\* A placement was refused on an Occupied tile although an earlier cell of
\* the piece fits.
C8_Witness ==
  /\ call.op = "place"
  /\ ret.kind = "Err"
  /\ ret.err = "PieceOnOccupiedTile"
  /\ \E piece \in PieceInputs, position \in PositionInputs :
       LET coords == occupied_coords_iter(piece)
       IN /\ can_place_piece(tiles, piece, position) = "PieceOnOccupiedTile"
          /\ CellVerdict(tiles, piece, position, <<coords[1].x, coords[1].y>>) = "Ok"

\* A tile the region query may capture for team: Empty, or Occupied by the
\* opposing team.
Capturable(t, idx, team) ==
  \/ t[idx].kind = "Empty"
  \/ (t[idx].kind = "Occupied" /\ is_opposing_team(team, t[idx].team))

Adjacent8(a, b) ==
  /\ a # b
  /\ a[1] - b[1] \in {-1, 0, 1}
  /\ a[2] - b[2] \in {-1, 0, 1}

RECURSIVE Reachable(_, _, _)
Reachable(t, team, found) ==
  LET more == {idx \in DOMAIN t :
                 /\ Capturable(t, idx, team)
                 /\ \E f \in found : Adjacent8(idx, f)}
  IN IF more \subseteq found THEN found
     ELSE Reachable(t, team, found \cup more)

\* C9: the region grown from a seed holds every capturable tile reachable
\* from the seed through 8-adjacent capturable tiles.
C9_RegionIsMaximal ==
  call.op = "flood" =>
    \A idx \in Reachable(tiles, call.team, {<<call.seed.x, call.seed.y>>}) :
      Position(idx[1], idx[2]) \in ret.set

\* C10: every position of a region is an Empty tile or a tile Occupied by
\* the opposing team; none is a Wall or a tile of the piece's own team.
C10_RegionIsCapturable ==
  call.op = "flood" =>
    \A p \in ret.set : Capturable(tiles, <<p.x, p.y>>, call.team)

\* The grid index of a position of the region query.
GridIdx(p) == <<p.x, p.y>>

\* The seeds of the region query for a placed piece: the capturable tiles
\* 8-adjacent to a board cell of the piece.
Seeds(t, piece) ==
  {idx \in DOMAIN t :
     /\ Capturable(t, idx, piece.team)
     /\ \E cell \in BoardCells(piece) : Adjacent8(idx, cell)}

\* C11: the region query returns; every seed is in exactly one region, the
\* regions are pairwise disjoint, and there is exactly one region for each
\* connected component of capturable tiles that holds a seed.
C11_RegionsPartitionSeeds ==
  [][\A k \in DOMAIN pieces :
       tile_groups(pieces[k]) =>
         LET piece == pieces[k]
             groups == ret'.groups
             region(g) == {GridIdx(p) : p \in groups[g]}
             components == {Reachable(tiles, piece.team, {idx}) :
                              idx \in Seeds(tiles, piece)}
         IN /\ ret'.kind = "Ok"
            /\ \A idx \in Seeds(tiles, piece) :
                 Cardinality({g \in 1..Len(groups) : idx \in region(g)}) = 1
            /\ \A g, h \in 1..Len(groups) :
                 g # h => region(g) \cap region(h) = {}
            /\ {region(g) : g \in 1..Len(groups)} = components
            /\ Len(groups) = Cardinality(components)]_vars

\* C12: on the default board with nothing but an unrotated white inn at
\* (8, 8), the region query returns two regions: the corner cell (9, 9) on
\* its own (position (9, 9) of the view, (10, 10) of the grid) and the
\* other 96 free cells.
C12_InnInCornerSplitsBoard ==
  (/\ board_size = DefaultSize
   /\ call.op = "tile_groups"
   /\ \E k \in DOMAIN pieces :
        pieces[k] = placed_at(new_inn("White"), Position(8, 8)))
    => /\ ret.kind = "Ok"
       /\ Len(ret.groups) = 2
       /\ {Cardinality(ret.groups[g]) : g \in 1..2} = {1, 96}
       /\ \E g \in 1..2 :
            ret.groups[g] \in {{Position(9, 9)}, {Position(10, 10)}}

\* C13: a successful placement turns the tiles at position + c, for the
\* occupied cells c of the layout, into Occupied(team of the piece) and
\* leaves every other tile of the grid, walls and tiles of earlier pieces
\* included, as it was.  The snapshot holds the piece as placed and the grid
\* before the placement.
C13_PlacementMarksExactlyCells ==
  (call.op = "place" /\ ret.kind = "Ok") =>
    LET piece == snapshot.piece
        position == piece.position
    IN /\ snapshot.valid
       /\ tiles = [idx \in DOMAIN tiles |->
                     IF \E rc \in LayoutCells(piece.layout) :
                          idx = <<position.y + rc[1] + 1, position.x + rc[2] + 1>>
                     THEN Occupied(piece.team)
                     ELSE snapshot.tiles[idx]]

\* The academy, whose layout has unoccupied cells, has just been placed on
\* a board that already had a piece on it.
C13_Witness ==
  /\ call.op = "place"
  /\ ret.kind = "Ok"
  /\ snapshot.valid
  /\ snapshot.piece.layout = AcademyLayout("White")
  /\ \E idx \in DOMAIN snapshot.tiles : snapshot.tiles[idx].kind = "Occupied"

\* C14: a removal under a key the registry has no entry for returns
\* PieceNotOnBoard and leaves the grid and the registry as they were,
\* whatever placed piece is passed in.
\* Stated by contraposition: a removal step that does anything else was
\* called with a key that the registry has an entry for.
C14_UnknownKeyChangesNothing ==
  [][(/\ call'.op = "remove"
      /\ ~(/\ ret'.kind = "Err"
            /\ ret'.err = "PieceNotOnBoard"
            /\ tiles' = tiles
            /\ pieces' = pieces))
       => \A piece \in PlacedInputs, found_at \in PositionInputs :
            try_remove_piece(piece, found_at) => found_at \in DOMAIN pieces]_vars

\* A removal has just been refused although the board holds a piece.
C14_Witness ==
  /\ call.op = "remove"
  /\ ret.err = "PieceNotOnBoard"
  /\ pieces # << >>
  /\ \E idx \in DOMAIN tiles : tiles[idx].kind = "Occupied"

\* The grid indexes of the cells of a piece put at position, whether they
\* are on the board or not.
CellsAt(piece, position) ==
  {<<position.y + rc[1] + 1, position.x + rc[2] + 1>> :
     rc \in LayoutCells(piece.layout)}

\* The piece put at position would share a cell with a registered piece.
Overlaps(piece, position) ==
  \E k \in DOMAIN pieces :
    BoardCells(pieces[k]) \cap CellsAt(piece, position) # {}

\* C15 (as claimed): a piece whose cells intersect those of a piece on the
\* board is refused with PieceOnOccupiedTile, whatever the teams.
C15_OverlapIsOccupiedError ==
  \A piece \in ProbeInputs, position \in PositionInputs :
    Overlaps(piece, position)
      => can_place_piece(tiles, piece, position) = "PieceOnOccupiedTile"

\* C15 (amended): a piece whose cells intersect those of a piece on the
\* board is refused, whatever the teams: with PieceOnOccupiedTile when none
\* of its cells is out of bounds or on a tile credited to the opposing team,
\* and otherwise with PieceOnOccupiedTile or with the error of such a cell.
C15_OverlapIsRefused ==
  \A piece \in ProbeInputs, position \in PositionInputs :
    Overlaps(piece, position) =>
      LET res == can_place_piece(tiles, piece, position)
          verdicts == {CellVerdict(tiles, piece, position, rc) :
                         rc \in LayoutCells(piece.layout)}
      IN /\ res \in verdicts \ {"Ok"}
         /\ verdicts \subseteq {"Ok", "PieceOnOccupiedTile"}
              => res = "PieceOnOccupiedTile"

\* A placement has just been refused on an Occupied tile, and a piece that
\* overlaps a piece on the board is refused on an enemy tile.
C15_Witness ==
  /\ call.op = "place"
  /\ ret.err = "PieceOnOccupiedTile"
  /\ \E piece \in ProbeInputs, position \in PositionInputs :
       /\ Overlaps(piece, position)
       /\ can_place_piece(tiles, piece, position) = "PieceOnEnemyTile"

OtherTeam(team) == IF team = "White" THEN "Black" ELSE "White"

\* The cells of the piece put at position that are tiles of the grid.
TilesAt(piece, position) == CellsAt(piece, position) \cap DOMAIN tiles

\* Every cell of the piece put at position is a tile of the playable area.
AllInside(piece, position) ==
  \A idx \in CellsAt(piece, position) :
    idx[1] \in 1..board_size /\ idx[2] \in 1..board_size

\* The piece, of team White or Black, covers a tile credited to the other
\* team.
CoversEnemyTile(piece, position) ==
  /\ piece.team \in {"White", "Black"}
  /\ \E idx \in TilesAt(piece, position) :
       tiles[idx] = Empty(OtherTeam(piece.team))

\* The piece, of team White or Black, covers a tile credited to its team and
\* is otherwise in bounds on Empty tiles credited to no team or its own.
CoversOwnTileOnly(piece, position) ==
  /\ piece.team \in {"White", "Black"}
  /\ AllInside(piece, position)
  /\ \E idx \in CellsAt(piece, position) : tiles[idx] = Empty(piece.team)
  /\ \A idx \in CellsAt(piece, position) :
       tiles[idx] \in {Empty(piece.team), Empty("None")}

\* C16 (as claimed): on a tile credited to a team, a piece of the opposing
\* team is refused with PieceOnEnemyTile, a piece of that team that is
\* otherwise fine is accepted, and a piece of no team is never refused with
\* PieceOnEnemyTile.
C16_EnemyTileIsEnemyError ==
  \A piece \in ProbeInputs, position \in PositionInputs :
    LET res == can_place_piece(tiles, piece, position)
    IN /\ CoversEnemyTile(piece, position) => res = "PieceOnEnemyTile"
       /\ CoversOwnTileOnly(piece, position) => res = "Ok"
       /\ piece.team = "None" => res # "PieceOnEnemyTile"

\* C16 (amended): on a tile credited to a team, a piece of the opposing team
\* is refused, with PieceOnEnemyTile when all its cells are in bounds and
\* none is on an Occupied tile; a piece of that team that is otherwise fine
\* is accepted; a piece of no team is never refused with PieceOnEnemyTile.
C16_EnemyTileIsRefused ==
  \A piece \in ProbeInputs, position \in PositionInputs :
    LET res == can_place_piece(tiles, piece, position)
    IN /\ CoversEnemyTile(piece, position)
            => /\ res \in {"PieceOnEnemyTile", "PieceOnOccupiedTile",
                           "PieceOutOfBounds"}
               /\ (/\ AllInside(piece, position)
                    /\ \A idx \in CellsAt(piece, position) :
                         tiles[idx].kind # "Occupied")
                    => res = "PieceOnEnemyTile"
       /\ CoversOwnTileOnly(piece, position) => res = "Ok"
       /\ piece.team = "None" => res # "PieceOnEnemyTile"

\* A placement has just been refused on an enemy tile; on the same board a
\* piece of the team of that tile and a piece of no team may cover it, and a
\* piece of the opposing team that covers it is refused on an Occupied tile.
C16_Witness ==
  /\ call.op = "place"
  /\ ret.err = "PieceOnEnemyTile"
  /\ \E piece \in ProbeInputs, position \in PositionInputs :
       CoversOwnTileOnly(piece, position)
  /\ \E piece \in ProbeInputs, position \in PositionInputs :
       /\ piece.team = "None"
       /\ \E idx \in TilesAt(piece, position) :
            tiles[idx].kind = "Empty" /\ tiles[idx].team # "None"
       /\ can_place_piece(tiles, piece, position) = "Ok"
  /\ \E piece \in ProbeInputs, position \in PositionInputs :
       /\ CoversEnemyTile(piece, position)
       /\ can_place_piece(tiles, piece, position) = "PieceOnOccupiedTile"

\* C17: placed_at gives a piece of the same team, layout and rotation at the
\* given position; released gives a piece of the same team, layout and
\* rotation.
C17_PlacedAndReleasedKeepRotation ==
  [][/\ call'.op = "placed_at" =>
          /\ hand'.team = hand.team
          /\ hand'.layout = hand.layout
          /\ hand'.rotation = hand.rotation
          /\ \E position \in PositionInputs :
               hand' = placed_at(hand, position) /\ hand'.position = position
     /\ call'.op = "released" =>
          /\ hand'.team = hand.team
          /\ hand'.layout = hand.layout
          /\ hand'.rotation = hand.rotation]_vars

\* C18: once every registered piece has been removed with its registry key,
\* so that the registry is empty, every interactive tile is Empty(None).
C18_EmptyRegistryMeansEmptyBoard ==
  pieces = << >> =>
    \A idx \in DOMAIN tiles :
      (idx[1] \in 1..board_size /\ idx[2] \in 1..board_size)
        => tiles[idx] = Empty("None")

\* C19: can_place_piece and try_place_piece_at return Ok or an error for
\* every position, those at the end of the coordinate type included: they
\* never panic, and accept no position there through wrapped arithmetic.
C19_PlacementNeverPanics ==
  /\ call.op = "place" => ret.kind \in {"Ok", "Err"}
  /\ \A piece \in PieceInputs, position \in FarPositionInputs :
       can_place_piece(tiles, piece, position)
         \in {"PieceOutOfBounds", "PieceOnOccupiedTile", "PieceOnEnemyTile"}

\* The border of the grid of a board made with with_size(n).
Border(n) ==
  {idx \in (0..(n + 1)) \X (0..(n + 1)) :
     idx[1] \in {0, n + 1} \/ idx[2] \in {0, n + 1}}

\* C20: the grid is (N + 2) x (N + 2) and its Wall tiles are exactly the
\* tiles of row 0, row N + 1, column 0 and column N + 1, in every state.
C20_WallsAreTheBorder ==
  /\ DOMAIN tiles = (0..(board_size + 1)) \X (0..(board_size + 1))
  /\ \A idx \in DOMAIN tiles :
       tiles[idx].kind = "Wall" <=> idx \in Border(board_size)
  /\ \A idx \in Border(board_size) : tiles[idx] = Wall

\* A piece next to the wall has just been removed while another piece next
\* to the wall stays on the board.
C20_Witness ==
  /\ call.op = "remove"
  /\ ret.kind = "Ok"
  /\ \E idx \in DOMAIN tiles : tiles[idx].kind = "Occupied" /\ idx[2] = 1
  /\ \E idx \in BoardCells(ret.piece) : idx[1] = 1 \/ idx[2] = 1

\* C21: on every piece a caller can hold released, whatever kind it is and
\* however it has been rotated, four rotate_clockwise calls give back the
\* layout, and so do four rotate_counterclockwise calls.
C21_FourTurnsGiveLayoutBack ==
  hand.state = "Released" =>
    /\ rotate_clockwise(rotate_clockwise(
         rotate_clockwise(rotate_clockwise(hand)))).layout = hand.layout
    /\ rotate_counterclockwise(rotate_counterclockwise(
         rotate_counterclockwise(rotate_counterclockwise(hand)))).layout
           = hand.layout

\* The cathedral has been rotated clockwise four times, and nothing else.
C21_Witness ==
  /\ turns.valid
  /\ turns.fresh = new_cathedral
  /\ turns.cw = 4
  /\ turns.ccw = 0
  /\ call.op = "rotate_clockwise"
  /\ hand.layout = CathedralLayout

\* C22: on every piece a caller can hold released, rotate_clockwise followed
\* by rotate_counterclockwise, and the two in the other order, give back the
\* layout and the rotation marker.
C22_OppositeTurnsCancel ==
  hand.state = "Released" =>
    LET there == rotate_counterclockwise(rotate_clockwise(hand))
        back == rotate_clockwise(rotate_counterclockwise(hand))
    IN /\ there.layout = hand.layout
       /\ there.rotation = hand.rotation
       /\ back.layout = hand.layout
       /\ back.rotation = hand.rotation

\* A white tower has been rotated clockwise and then counterclockwise, and
\* nothing else.
C22_Witness ==
  /\ turns.valid
  /\ turns.fresh = new_tower("White")
  /\ turns.cw = 1
  /\ turns.ccw = 1
  /\ call.op = "rotate_counterclockwise"
  /\ hand = new_tower("White")

\* C23: rotate_clockwise turns an r x c layout into the c x r layout whose
\* cell (j, r-1-i) is the cell (i, j) of the old one, rotate_counterclockwise
\* into the c x r layout whose cell (c-1-j, i) is the cell (i, j) of the old
\* one; both keep the number of occupied cells.  Cells count from 0, the
\* rows and columns of a layout of the model from 1.
C23_RotationMovesCells ==
  hand.state = "Released" =>
    LET old == hand.layout
        r == nrows(old)
        c == ncols(old)
        cw == rotate_clockwise(hand).layout
        ccw == rotate_counterclockwise(hand).layout
    IN /\ nrows(cw) = c /\ ncols(cw) = r
       /\ nrows(ccw) = c /\ ncols(ccw) = r
       /\ \A i \in 0..(r - 1), j \in 0..(c - 1) :
            /\ cw[j + 1][(r - 1 - i) + 1] = old[i + 1][j + 1]
            /\ ccw[(c - 1 - j) + 1][i + 1] = old[i + 1][j + 1]
       /\ Cardinality(LayoutCells(cw)) = Cardinality(LayoutCells(old))
       /\ Cardinality(LayoutCells(ccw)) = Cardinality(LayoutCells(old))

\* The cathedral has been rotated clockwise once and has the layout that
\* test_clockwise_rotation expects.
C23_Witness ==
  /\ turns.valid
  /\ turns.fresh = new_cathedral
  /\ turns.cw = 1
  /\ turns.ccw = 0
  /\ call.op = "rotate_clockwise"
  /\ hand.layout = << <<FALSE, FALSE, TRUE, FALSE>>,
                      <<TRUE, TRUE, TRUE, TRUE>>,
                      <<FALSE, FALSE, TRUE, FALSE>> >>

\* The neighbours of a position at the given offsets that lie in
\* 0 <= x < upper_bound.x and 0 <= y < upper_bound.y, on the integers.
NeighboursWithin(self, upper_bound, offsets) ==
  {Position(self.x + d[1], self.y + d[2]) : d \in
     {d \in offsets : /\ 0 <= self.x + d[1] /\ self.x + d[1] < upper_bound.x
                      /\ 0 <= self.y + d[2] /\ self.y + d[2] < upper_bound.y}}

C25_ArithmeticNeverWraps ==
  LET a == call.self
      b == call.rhs
      over == a.x + b.x > UsizeMax \/ a.y + b.y > UsizeMax
      under == b.x > a.x \/ b.y > a.y
  IN /\ call.op = "checked_add" =>
          IF over THEN ret.kind = "None"
          ELSE ret.kind = "Some" /\ ret.position = Position(a.x + b.x, a.y + b.y)
     /\ call.op = "add" =>
          IF over THEN ret.kind = "Panic"
          ELSE ret.kind = "Ok" /\ ret.position = Position(a.x + b.x, a.y + b.y)
     /\ call.op = "sub" =>
          IF under THEN ret.kind = "Panic"
          ELSE ret.kind = "Ok" /\ ret.position = Position(a.x - b.x, a.y - b.y)

\* A layout turned clockwise by k quarter turns, cell by cell.
QuarterTurns(layout, k) ==
  LET r == nrows(layout)
      c == ncols(layout)
  IN CASE k = 0 -> layout
       [] k = 1 -> [a \in 1..c |-> [b \in 1..r |-> layout[r + 1 - b][a]]]
       [] k = 2 -> [a \in 1..r |-> [b \in 1..c |-> layout[r + 1 - a][c + 1 - b]]]
       [] k = 3 -> [a \in 1..c |-> [b \in 1..r |-> layout[b][c + 1 - a]]]

\* C26: after any sequence of rotate_clockwise and rotate_counterclockwise
\* calls on a freshly constructed piece, the rotation marker is UP advanced
\* by (#clockwise - #counterclockwise) mod 4 steps along UP, RIGHT, DOWN,
\* LEFT, and the layout is the canonical layout turned clockwise by that
\* number of quarter turns.
C26_MarkerAndLayoutFollowNetTurns ==
  turns.valid =>
    LET k == (turns.cw - turns.ccw) % 4
    IN /\ hand.rotation = <<"UP", "RIGHT", "DOWN", "LEFT">>[k + 1]
       /\ hand.layout = QuarterTurns(turns.fresh.layout, k)

\* A white academy turned twice clockwise and three times counterclockwise
\* in some order: one net quarter turn counterclockwise, marker LEFT.
C26_Witness ==
  /\ turns.valid
  /\ turns.fresh = new_academy("White")
  /\ turns.cw = 2
  /\ turns.ccw = 3
  /\ hand.rotation = "LEFT"
  /\ hand.layout # turns.fresh.layout

\* The positions whose tiles the region query reads first for a piece: the
\* neighbours it computes of the cells of the piece, before any wrapping.
FirstReads(piece) ==
  LET coords == occupied_coords_iter(piece)
  IN UNION {SeqRange(adjacent_positions(coords[k])) : k \in 1..Len(coords)}

\* C27: for every piece placed on the board, the region query computes no
\* coordinate below 0 by unsigned subtraction and reads no tile outside the
\* (N+2) x (N+2) grid; a region query that has been made has returned its
\* regions without panicking.
C27_RegionQueryStaysOnGrid ==
  /\ \A k \in DOMAIN pieces :
       \A p \in FirstReads(pieces[k]) :
         /\ p.x >= 0
         /\ p.y >= 0
         /\ GridIdx(p) \in DOMAIN tiles
  /\ call.op = "tile_groups" => ret.kind # "Panic"

\* The seeds that the region query starts its flood fills from, as the code
\* computes them when it does not panic first.
InitialTilesPositions(piece) ==
  {p \in {Position(Wrap(q.x), Wrap(q.y)) : q \in FirstReads(piece)} :
     is_traversible(tiles, p, piece.team)}

====
